---- MODULE Spec2Model ----
(***************************************************************************)
(* Type hierarchy feature lifecycle of zgqing/theia:                      *)
(*   TypeHierarchyService  (packages/typehierarchy/.../typehierarchy-      *)
(*                          service.ts)                                   *)
(*   TypeHierarchyFeature  (packages/languages/.../call-hierarchy-         *)
(*                          protocol.proposed.ts, second half)             *)
(* The program is single threaded: a top-level call (createNewFeature,     *)
(* initialize, dispose, Service.dispose) runs to completion on a call      *)
(* stack, and event handlers run synchronously inside Emitter.fire.  The   *)
(* call stack is explicit so that the states inside a call are visible.    *)
(***************************************************************************)
EXTENDS Integers, Sequences, FiniteSets, TLC

\* ---------------------------------------------------------------- bounds
MaxOps == 5         \* top-level calls made by the environment
MaxStack == 9       \* call-stack frames available before a RangeError
MaxOutstanding == 1 \* requests awaiting their answer at a time

\* ------------------------------------------------------------ the universe
Features == {"a", "b", "c"}
Languages == {"go", "ts"}
None == "none"

\* client.languageId of each feature's language client
languageId == [f \in Features |-> IF f = "c" THEN "ts" ELSE "go"]

\* subscribers of a feature's two emitters: the Service's handler installed by
\* register(), and one external subscriber that only counts deliveries
Service == "service"
Observer == "observer"

VARIABLES
    created,                \* features constructed by createNewFeature
    features,               \* TypeHierarchyService.features : languageId -> feature
    onInitializedEmitter,   \* per feature: callbacks of onInitializedEmitter, in order
    onDisposedEmitter,      \* per feature: callbacks of onDisposedEmitter, in order
    toDisposeDisposed,      \* per feature: toDispose (both emitters) has been disposed
    providers,              \* per feature: size of TextDocumentFeature._providers
    stack,                  \* call stack, innermost frame last
    initCount,              \* per feature: Initialized deliveries seen by the observer
    dispCount,              \* per feature: Disposed deliveries seen by the observer
    regCount,               \* per feature: register(messages, {id, ...}) calls made
    ops,                    \* number of top-level calls made so far
    last,                   \* the most recent top-level call and its arguments
    pre,                    \* features and dispCount when Service.dispose() was called
    raised,                 \* the last step threw a RangeError (stack exhausted)
    serviceDisposed,        \* Service.dispose() has returned at least once
    initCalls,              \* per feature: the <<capability, selector>> pairs passed to initialize
    queries                 \* the superTypes/subTypes calls whose promise the caller still holds

prog == <<created, features, onInitializedEmitter, onDisposedEmitter,
          toDisposeDisposed, providers, initCount, dispCount, regCount>>
vars == <<created, features, onInitializedEmitter, onDisposedEmitter,
          toDisposeDisposed, providers, stack, initCount, dispCount, regCount,
          ops, last, pre, raised, serviceDisposed, initCalls, queries>>

\* ------------------------------------------------------------ call stack
Frame(op, f, pc, todo) == [op |-> op, f |-> f, pc |-> pc, todo |-> todo]

Top == stack[Len(stack)]
Pop(s) == SubSeq(s, 1, Len(s) - 1)
SetTop(s, fr) == [s EXCEPT ![Len(s)] = fr]

\* a call needs a free frame
CanPush == Len(stack) < MaxStack
\* the stack may be exhausted by any call made this deep; only the unbounded
\* recursion dispose -> fire -> onDisposed handler -> dispose gets here
MayOverflow == Len(stack) >= MaxStack - 2

\* an exception unwinds to the innermost Emitter.fire, whose invoke loop
\* catches it and goes on with the next callback
RECURSIVE Unwind(_)
Unwind(s) ==
    IF s = <<>> THEN <<>>
    ELSE IF s[Len(s)].op = "fire" THEN s
    ELSE Unwind(Pop(s))

\* ------------------------------------------------------------ Emitter
\* Emitter.fire(e): nothing to do without callbacks, otherwise invoke a copy
\* of the callback list
EmitterFire(s, f, ev, callbacks) ==
    IF callbacks = <<>> THEN s ELSE Append(s, Frame("fire", f, ev, callbacks))

\* Disposable returned by event(listener): removes the listener
RECURSIVE Remove(_, _)
Remove(callbacks, listener) ==
    IF callbacks = <<>> THEN <<>>
    ELSE IF Head(callbacks) = listener THEN Tail(callbacks)
    ELSE <<Head(callbacks)>> \o Remove(Tail(callbacks), listener)

\* ------------------------------------------------------------ Service
isEnabledFor(l) == l \in Languages /\ features[l] # None

\* Service.register(newFeature): subscribe to both events; the observer
\* subscribes after createNewFeature has returned the feature
register == <<Service, Observer>>

\* ------------------------------------------------------------ values
Undefined == "undefined"

\* an optional property of an object: absent, or present with a value
Absent == <<>>
Some(v) == <<v>>

\* ServerCapabilities as a backend may advertise them: the key declared by
\* TypeHierarchyServerCapabilities, and the key typeHierarchyProvider
ServerCapabilities ==
    [typeHierarchy : {Absent, Some(FALSE), Some(TRUE)}, typeHierarchyProvider : {Absent}]
    \cup [typeHierarchy : {Absent}, typeHierarchyProvider : {Some(TRUE)}]
NoCapabilities == [typeHierarchy |-> Absent, typeHierarchyProvider |-> Absent]

\* initialize that reads the key typeHierarchyProvider
capabilitiesExt_provider(capabilities) == capabilities.typeHierarchyProvider = Some(TRUE)

\* if (capabilitiesExt.typeHierarchy): the flag initialize reads
capabilitiesExt(capabilities) == capabilities.typeHierarchy = Some(TRUE)

\* a top-level call, with what was true of its feature when it was made
Call(op, f, cap, sel) ==
    [op |-> op, f |-> f, cap |-> cap, sel |-> sel, caps |-> NoCapabilities,
     mapped |-> f \in Features /\ features[languageId[f]] = f,
     disposed |-> f \in Features /\ dispCount[f] >= 1,
     arg |-> Undefined, result |-> Undefined, twice |-> Undefined]

\* the caller drops the promises that have settled
Forget(qs) == SelectSeq(qs, LAMBDA q : q.state = "pending")

Init ==
    /\ created = {}
    /\ features = [l \in Languages |-> None]
    /\ onInitializedEmitter = [f \in Features |-> <<>>]
    /\ onDisposedEmitter = [f \in Features |-> <<>>]
    /\ toDisposeDisposed = [f \in Features |-> FALSE]
    /\ providers = [f \in Features |-> 0]
    /\ stack = <<>>
    /\ initCount = [f \in Features |-> 0]
    /\ dispCount = [f \in Features |-> 0]
    /\ regCount = [f \in Features |-> 0]
    /\ ops = 0
    /\ last = Call("none", None, FALSE, FALSE)
    /\ pre = [features |-> [l \in Languages |-> None],
              dispCount |-> [f \in Features |-> 0]]
    /\ raised = FALSE
    /\ serviceDisposed = FALSE
    /\ initCalls = [f \in Features |-> {}]
    /\ queries = <<>>

\* ------------------------------------------------------- top-level calls
Idle == stack = <<>> /\ ops < MaxOps

\* TypeHierarchyService.createNewFeature(service, client)
createNewFeature(f) ==
    /\ Idle
    /\ f \notin created
    /\ created' = created \cup {f}
    /\ onInitializedEmitter' = [onInitializedEmitter EXCEPT ![f] = register]
    /\ onDisposedEmitter' = [onDisposedEmitter EXCEPT ![f] = register]
    /\ ops' = ops + 1
    /\ last' = Call("createNewFeature", f, FALSE, FALSE)
    /\ raised' = FALSE
    /\ queries' = Forget(queries)
    /\ UNCHANGED <<features, toDisposeDisposed, providers, stack, initCount,
                   dispCount, regCount, pre, serviceDisposed, initCalls>>

\* initialize that negotiates whatever the capability flag says
initializeStack_ignoreCapability(f, cap, sel) ==
    IF ~sel THEN <<>>
    ELSE EmitterFire(<<Frame("initialize", f, "register", <<>>)>>, f, "init",
                     onInitializedEmitter[f])

\* initialize that negotiates without a document selector
initializeStack_ignoreSelector(f, cap, sel) ==
    IF cap
    THEN EmitterFire(<<Frame("initialize", f, "register", <<>>)>>, f, "init",
                     onInitializedEmitter[f])
    ELSE <<>>

\* TypeHierarchyFeature.initialize(capabilities, documentSelector), up to and
\* including the call of onInitializedEmitter.fire
initializeStack(f, cap, sel) ==
    IF ~sel THEN <<>>
    ELSE IF cap
         THEN EmitterFire(<<Frame("initialize", f, "register", <<>>)>>, f, "init",
                          onInitializedEmitter[f])
         ELSE <<>>

initialize(f, capabilities, sel) ==
    /\ Idle
    /\ f \in created
    /\ LET cap == capabilitiesExt(capabilities)
       IN  /\ stack' = initializeStack(f, cap, sel)
           /\ last' = [Call("initialize", f, cap, sel) EXCEPT !.caps = capabilities]
           /\ initCalls' = [initCalls EXCEPT ![f] = @ \cup {<<cap, sel>>}]
    /\ ops' = ops + 1
    /\ raised' = FALSE
    /\ queries' = Forget(queries)
    /\ UNCHANGED <<prog, pre, serviceDisposed>>

\* the rest of initialize: this.register(this.messages, {id: v4(), ...}), which
\* stores the provider made by registerLanguageProvider under the fresh id
initializeRegister ==
    /\ stack # <<>>
    /\ Top.op = "initialize"
    /\ regCount' = [regCount EXCEPT ![Top.f] = @ + 1]
    /\ providers' = [providers EXCEPT ![Top.f] = @ + 1]
    /\ stack' = Pop(stack)
    /\ raised' = FALSE
    /\ UNCHANGED queries
    /\ UNCHANGED <<created, features, onInitializedEmitter, onDisposedEmitter,
                   toDisposeDisposed, initCount, dispCount,
                   ops, last, pre, serviceDisposed, initCalls>>

\* a call of TypeHierarchyFeature.dispose() from outside
dispose(f) ==
    /\ Idle
    /\ f \in created
    /\ stack' = <<Frame("dispose", f, "fire", <<>>)>>
    /\ ops' = ops + 1
    /\ last' = Call("dispose", f, FALSE, FALSE)
    /\ raised' = FALSE
    /\ queries' = Forget(queries)
    /\ UNCHANGED <<prog, pre, serviceDisposed, initCalls>>

\* TypeHierarchyFeature.dispose(), first statement: onDisposedEmitter.fire
disposeFire ==
    /\ stack # <<>>
    /\ Top.op = "dispose" /\ Top.pc = "fire"
    /\ onDisposedEmitter[Top.f] # <<>> => CanPush
    /\ stack' = EmitterFire(SetTop(stack, Frame("dispose", Top.f, "super", <<>>)),
                            Top.f, "disp", onDisposedEmitter[Top.f])
    /\ raised' = FALSE
    /\ UNCHANGED queries
    /\ UNCHANGED <<prog, ops, last, pre, serviceDisposed, initCalls>>

\* registerLanguageProvider's disposable: toDispose.dispose() disposes both
\* emitters, which drop their callbacks
registerLanguageProvider(f) ==
    /\ onInitializedEmitter' = [onInitializedEmitter EXCEPT ![f] = <<>>]
    /\ onDisposedEmitter' = [onDisposedEmitter EXCEPT ![f] = <<>>]
    /\ toDisposeDisposed' = [toDisposeDisposed EXCEPT ![f] = TRUE]

\* TypeHierarchyFeature.dispose(), second statement: super.dispose() disposes
\* every stored provider and clears the providers
disposeSuper ==
    /\ stack # <<>>
    /\ Top.op = "dispose" /\ Top.pc = "super"
    /\ IF providers[Top.f] > 0
       THEN registerLanguageProvider(Top.f)
       ELSE UNCHANGED <<onInitializedEmitter, onDisposedEmitter, toDisposeDisposed>>
    /\ providers' = [providers EXCEPT ![Top.f] = 0]
    /\ stack' = Pop(stack)
    /\ raised' = FALSE
    /\ UNCHANGED queries
    /\ UNCHANGED <<created, features, initCount, dispCount, regCount,
                   ops, last, pre, serviceDisposed, initCalls>>

\* ------------------------------------------------------------ Emitter.fire
\* the Service's handler for an event of the feature, as subscribed by register()
HandlerOf(ev) == IF ev = "init" THEN "onInitialized" ELSE "onDisposed"

\* the observer's callback: count the delivery
observe(f, ev) ==
    /\ initCount' = [initCount EXCEPT ![f] = IF ev = "init" THEN @ + 1 ELSE @]
    /\ dispCount' = [dispCount EXCEPT ![f] = IF ev = "disp" THEN @ + 1 ELSE @]

\* the invoke loop of Emitter.fire calls the next callback of its copy
invoke ==
    /\ stack # <<>>
    /\ Top.op = "fire" /\ Top.todo # <<>>
    /\ LET f == Top.f
           callback == Head(Top.todo)
           rest == SetTop(stack, [Top EXCEPT !.todo = Tail(@)])
       IN  IF callback = Observer
           THEN /\ observe(f, Top.pc)
                /\ stack' = rest
           ELSE /\ CanPush
                /\ stack' = Append(rest, Frame(HandlerOf(Top.pc), f, "start", <<>>))
                /\ UNCHANGED <<initCount, dispCount>>
    /\ raised' = FALSE
    /\ UNCHANGED queries
    /\ UNCHANGED <<created, features, onInitializedEmitter, onDisposedEmitter,
                   toDisposeDisposed, providers, regCount,
                   ops, last, pre, serviceDisposed, initCalls>>

\* Emitter.fire returns once every callback of the copy has been called
fireReturn ==
    /\ stack # <<>>
    /\ Top.op = "fire" /\ Top.todo = <<>>
    /\ stack' = Pop(stack)
    /\ raised' = FALSE
    /\ UNCHANGED queries
    /\ UNCHANGED <<prog, ops, last, pre, serviceDisposed, initCalls>>

\* ------------------------------------------------ Service.register handlers
\* a handler that never finds an old feature to dispose
oldFeature_undefined(l) == None

\* const oldFeature = this.features.get(languageId)
oldFeature(l) == features[l]

\* newFeature.onInitialized(() => { ... }): dispose the old feature of the
\* language, then map the new one
onInitialized ==
    /\ stack # <<>>
    /\ Top.op = "onInitialized"
    /\ LET newFeature == Top.f
           l == languageId[newFeature]
       IN  IF Top.pc = "start" /\ oldFeature(l) # None
           THEN /\ CanPush
                /\ stack' = Append(SetTop(stack, [Top EXCEPT !.pc = "set"]),
                                   Frame("dispose", oldFeature(l), "fire", <<>>))
                /\ UNCHANGED features
           ELSE /\ features' = [features EXCEPT ![l] = newFeature]
                /\ stack' = Pop(stack)
    /\ raised' = FALSE
    /\ UNCHANGED queries
    /\ UNCHANGED <<created, onInitializedEmitter, onDisposedEmitter,
                   toDisposeDisposed, providers, initCount, dispCount, regCount,
                   ops, last, pre, serviceDisposed, initCalls>>

\* toDisposeOnFeatureDispose.dispose(): the Service's two subscriptions on the
\* feature are removed
toDisposeOnFeatureDispose(f) ==
    /\ onInitializedEmitter' = [onInitializedEmitter EXCEPT ![f] = Remove(@, Service)]
    /\ onDisposedEmitter' = [onDisposedEmitter EXCEPT ![f] = Remove(@, Service)]

\* a handler that leaves the entry in the map
featuresDelete_kept(l) == features

\* a handler that empties the map
featuresDelete_all(l) == [k \in Languages |-> None]

\* this.features.delete(languageId)
featuresDelete(l) == [features EXCEPT ![l] = None]

\* if (this.features.has(languageId)): the feature the handler disposes
disposedTarget(newFeature) == features[languageId[newFeature]]

\* newFeature.onDisposed(() => { ... }): dispose whatever is mapped for the
\* language, delete the entry, release the subscriptions
onDisposed ==
    /\ stack # <<>>
    /\ Top.op = "onDisposed"
    /\ LET newFeature == Top.f
           l == languageId[newFeature]
       IN  IF Top.pc = "start" /\ disposedTarget(newFeature) # None
           THEN /\ CanPush
                /\ stack' = Append(SetTop(stack, [Top EXCEPT !.pc = "delete"]),
                                   Frame("dispose", disposedTarget(newFeature), "fire", <<>>))
                /\ UNCHANGED <<features, onInitializedEmitter, onDisposedEmitter>>
           ELSE /\ features' = IF Top.pc = "delete"
                               THEN featuresDelete(l)
                               ELSE features
                /\ toDisposeOnFeatureDispose(newFeature)
                /\ stack' = Pop(stack)
    /\ raised' = FALSE
    /\ UNCHANGED queries
    /\ UNCHANGED <<created, toDisposeDisposed, providers, initCount, dispCount,
                   regCount, ops, last, pre, serviceDisposed, initCalls>>

\* ------------------------------------------------------- Service.dispose
\* the orders in which Map.forEach may visit the mapped languages
Orders(S) == {o \in [1..Cardinality(S) -> S] : \A i, j \in 1..Cardinality(S) : o[i] = o[j] => i = j}
Mapped == {l \in Languages : features[l] # None}

serviceDispose ==
    /\ Idle
    /\ \E order \in Orders(Mapped) :
           stack' = <<Frame("serviceDispose", None, "forEach", order)>>
    /\ ops' = ops + 1
    /\ last' = Call("serviceDispose", None, FALSE, FALSE)
    /\ pre' = [features |-> features, dispCount |-> dispCount]
    /\ raised' = FALSE
    /\ queries' = Forget(queries)
    /\ UNCHANGED <<prog, serviceDisposed, initCalls>>

\* this.features.forEach(feature => feature.dispose()): the next entry
serviceDisposeForEach ==
    /\ stack # <<>>
    /\ Top.op = "serviceDispose" /\ Top.todo # <<>>
    /\ LET l == Head(Top.todo)
           rest == SetTop(stack, [Top EXCEPT !.todo = Tail(@)])
       IN  stack' = IF features[l] # None
                    THEN Append(rest, Frame("dispose", features[l], "fire", <<>>))
                    ELSE rest
    /\ raised' = FALSE
    /\ UNCHANGED queries
    /\ UNCHANGED <<prog, ops, last, pre, serviceDisposed, initCalls>>

\* this.features.clear()
serviceDisposeClear ==
    /\ stack # <<>>
    /\ Top.op = "serviceDispose" /\ Top.todo = <<>>
    /\ features' = [l \in Languages |-> None]
    /\ stack' = Pop(stack)
    /\ serviceDisposed' = TRUE
    /\ raised' = FALSE
    /\ UNCHANGED queries
    /\ UNCHANGED <<created, onInitializedEmitter, onDisposedEmitter,
                   toDisposeDisposed, providers, initCount, dispCount, regCount,
                   ops, last, pre, initCalls>>

\* ------------------------------------------------------- query arguments
Position(l, c) == [line |-> l, character |-> c]
Range(s, e) == [start |-> s, end |-> e]

\* the properties an argument of superTypes/subTypes may carry
Object(name, uri, range, position, textDocument, resolve, direction) ==
    [name |-> name, uri |-> uri, range |-> range, position |-> position,
     textDocument |-> textDocument, resolve |-> resolve, direction |-> direction]

\* Location: uri and range
Locations ==
    {Object(Absent, Some("file:///a.ts"), Some(Range(Position(3, 5), Position(10, 2))),
            Absent, Absent, Absent, Absent),
     Object(Absent, Some("file:///b.go"), Some(Range(Position(10, 2), Position(3, 5))),
            Absent, Absent, Absent, Absent)}

\* TypeHierarchyItem: name, uri, range, ...
Items ==
    {Object(Some("T"), Some("file:///b.go"), Some(Range(Position(10, 2), Position(10, 2))),
            Absent, Absent, Absent, Absent)}

\* TextDocumentPositionParams / TypeHierarchyParams: textDocument and position,
\* with or without resolve and direction
PositionParams ==
    {Object(Absent, Absent, Absent, Some(Position(3, 5)), Some([uri |-> Some("file:///b.go")]),
            Absent, Absent),
     Object(Absent, Absent, Absent, Some(Position(10, 2)), Some([uri |-> Some("file:///a.ts")]),
            Some(0), Some("both"))}

Args == Locations \cup Items \cup PositionParams

\* the language ids a caller may pass: those of the features and an unknown one
QueryLanguages == Languages \cup {"py"}

\* ------------------------------------------------------- backend answers
\* TypeHierarchyItem as answered: parents / children are absent (not resolved)
\* or a sequence (resolved, possibly empty)
AnswerItems ==
    {[name |-> "T", parents |-> Absent, children |-> Some(<<>>)],
     [name |-> "T", parents |-> Some(<<>>), children |-> Absent]}

Answer(kind, item, error) == [kind |-> kind, item |-> item, error |-> error]
AnswerNull == Answer("null", Absent, Absent)
AnswerUndefined == Answer("undefined", Absent, Absent)

\* what sendRequest may settle with: null, nothing, an item, or a rejection
Answers ==
    {AnswerNull, AnswerUndefined}
    \cup {Answer("item", Some(it), Absent) : it \in AnswerItems}
    \cup {Answer("error", Absent, Some(e)) : e \in {"timeout"}}

\* ------------------------------------------------------- Service queries
\* a lookup among the registered features instead of the mapped ones
featureFor_registered(l) ==
    IF \E f \in created : languageId[f] = l
    THEN CHOOSE f \in created : languageId[f] = l
    ELSE None

\* this.features.get(languageId)
featureFor(l) == IF l \in Languages THEN features[l] ELSE None

\* Position.is / TextDocumentIdentifier.is
PositionIs(v) == v # Absent
TextDocumentIdentifierIs(v) == v # Absent /\ v[1].uri # Absent

\* TypeHierarchyService.isTextDocumentPositionParams
isTextDocumentPositionParams(args) ==
    /\ args.position # Absent
    /\ args.textDocument # Absent
    /\ PositionIs(args.position)
    /\ TextDocumentIdentifierIs(args.textDocument)

\* a conversion that takes the end of the range
toTextDocumentPositionParams_end(arg) ==
    IF isTextDocumentPositionParams(arg)
    THEN arg
    ELSE Object(Absent, Absent, Absent, Some(arg.range[1].end),
                Some([uri |-> arg.uri]), Absent, Absent)

\* TypeHierarchyService.toTextDocumentPositionParams: the argument itself, or a
\* new object made of range.start and uri
toTextDocumentPositionParams(arg) ==
    IF isTextDocumentPositionParams(arg)
    THEN arg
    ELSE Object(Absent, Absent, Absent, Some(arg.range[1].start),
                Some([uri |-> arg.uri]), Absent, Absent)

\* types: params.direction = direction; params.resolve = 1
typesParams(arg, direction) ==
    [toTextDocumentPositionParams(arg) EXCEPT !.direction = Some(direction),
                                              !.resolve = Some(1)]

\* the caller's argument object after types has run: the assignments of types
\* are made to it when toTextDocumentPositionParams returned it
typesArg(arg, direction) ==
    IF isTextDocumentPositionParams(arg) THEN typesParams(arg, direction) ELSE arg

NoParams == Object(Absent, Absent, Absent, Absent, Absent, Absent, Absent)

\* TypeHierarchyService.types(feature, arg, direction): without a feature the
\* promise resolves to undefined; with one, feature.get(params) sends the
\* request through the feature's client
types(l, feature, arg, direction) ==
    IF feature # None
    THEN [languageId |-> l, direction |-> direction, arg |-> arg,
          argAfter |-> typesArg(arg, direction), feature |-> feature,
          params |-> typesParams(arg, direction), sends |-> 1,
          state |-> "pending", value |-> AnswerUndefined, answer |-> Absent]
    ELSE [languageId |-> l, direction |-> direction, arg |-> arg,
          argAfter |-> arg, feature |-> None,
          params |-> NoParams, sends |-> 0,
          state |-> "resolved", value |-> AnswerUndefined, answer |-> Absent]

Outstanding == Len(Forget(queries))

\* TypeHierarchyService.superTypes(languageId, arg)
superTypes(l, arg) ==
    /\ Idle
    /\ Outstanding < MaxOutstanding
    /\ queries' = Append(Forget(queries), types(l, featureFor(l), arg, "parents"))
    /\ ops' = ops + 1
    /\ last' = Call("superTypes", None, FALSE, FALSE)
    /\ raised' = FALSE
    /\ UNCHANGED <<prog, stack, pre, serviceDisposed, initCalls>>

\* TypeHierarchyService.subTypes(languageId, arg)
subTypes(l, arg) ==
    /\ Idle
    /\ Outstanding < MaxOutstanding
    /\ queries' = Append(Forget(queries), types(l, featureFor(l), arg, "children"))
    /\ ops' = ops + 1
    /\ last' = Call("subTypes", None, FALSE, FALSE)
    /\ raised' = FALSE
    /\ UNCHANGED <<prog, stack, pre, serviceDisposed, initCalls>>

\* a get that fills the relations the backend left out with empty sequences
get_normalised(q, answer) ==
    IF answer.kind = "error"
    THEN [q EXCEPT !.state = "rejected", !.value = answer]
    ELSE IF answer.kind = "item"
         THEN [q EXCEPT !.state = "resolved",
                        !.value = Answer("item",
                                         Some([name |-> answer.item[1].name,
                                               parents |-> IF answer.item[1].parents = Absent
                                                           THEN Some(<<>>)
                                                           ELSE answer.item[1].parents,
                                               children |-> IF answer.item[1].children = Absent
                                                            THEN Some(<<>>)
                                                            ELSE answer.item[1].children]),
                                         Absent)]
         ELSE [q EXCEPT !.state = "resolved", !.value = AnswerUndefined]

\* a get that catches the rejection and answers undefined
get_swallow(q, answer) ==
    IF answer.kind = "item"
    THEN [q EXCEPT !.state = "resolved", !.value = answer]
    ELSE [q EXCEPT !.state = "resolved", !.value = AnswerUndefined]

\* a get that sends the request again through the feature mapped when the
\* answer arrives, if that is another one
get_resend(q, answer) ==
    IF featureFor(q.languageId) \notin {None, q.feature}
    THEN [q EXCEPT !.feature = featureFor(q.languageId), !.sends = @ + 1]
    ELSE IF answer.kind = "error"
         THEN [q EXCEPT !.state = "rejected", !.value = answer]
         ELSE IF answer.kind = "item"
              THEN [q EXCEPT !.state = "resolved", !.value = answer]
              ELSE [q EXCEPT !.state = "resolved", !.value = AnswerUndefined]

\* TypeHierarchyFeature.get after the await: return item ? item : undefined;
\* a rejection of sendRequest rejects the promise of get with the same error
get(q, answer) ==
    IF answer.kind = "error"
    THEN [q EXCEPT !.state = "rejected", !.value = answer]
    ELSE IF answer.kind = "item"
         THEN [q EXCEPT !.state = "resolved", !.value = answer]
         ELSE [q EXCEPT !.state = "resolved", !.value = AnswerUndefined]

\* the backend's answer to an outstanding request arrives
respond(i, answer) ==
    /\ stack = <<>>
    /\ i \in 1..Len(queries)
    /\ queries[i].state = "pending"
    /\ queries' = [queries EXCEPT ![i] = [get(queries[i], answer) EXCEPT !.answer = Some(answer)]]
    /\ raised' = FALSE
    /\ UNCHANGED <<prog, stack, ops, last, pre, serviceDisposed, initCalls>>

\* ------------------------------------------------------- TypeHierarchyType
SUBTYPE == "subtype"
SUPERTYPE == "supertype"
Error == "Error"

\* a flip whose default branch returns a value
flip_lenient(type) ==
    CASE type = SUBTYPE -> SUPERTYPE
      [] OTHER -> SUBTYPE

\* TypeHierarchyType.flip(type)
flip(type) ==
    CASE type = SUBTYPE -> SUPERTYPE
      [] type = SUPERTYPE -> SUBTYPE
      [] OTHER -> Error

\* the values a caller may pass to flip: the two of the enum and others
FlipInputs == {SUBTYPE, SUPERTYPE, "both", "", Undefined}

\* a caller flips a value, and flips the result back when there is one
flipCall(type) ==
    /\ Idle
    /\ ops' = ops + 1
    /\ last' = [Call("flip", None, FALSE, FALSE) EXCEPT
                    !.arg = type,
                    !.result = flip(type),
                    !.twice = IF flip(type) = Error THEN Error ELSE flip(flip(type))]
    /\ queries' = Forget(queries)
    /\ raised' = FALSE
    /\ UNCHANGED <<prog, stack, pre, serviceDisposed, initCalls>>

\* ------------------------------------------------------- stack exhaustion
\* the innermost frame is about to make a call
AtCall ==
    \/ Top.op = "dispose" /\ Top.pc = "fire" /\ onDisposedEmitter[Top.f] # <<>>
    \/ Top.op = "fire" /\ Top.todo # <<>>
    \/ Top.op = "onInitialized" /\ Top.pc = "start" /\ oldFeature(languageId[Top.f]) # None
    \/ Top.op = "onDisposed" /\ Top.pc = "start" /\ disposedTarget(Top.f) # None

\* the call throws a RangeError instead: a callback's error is caught by the
\* invoke loop that called it, any other caller is unwound
stackOverflow ==
    /\ stack # <<>>
    /\ MayOverflow
    /\ AtCall
    /\ stack' = IF Top.op = "fire"
                THEN SetTop(stack, [Top EXCEPT !.todo = Tail(@)])
                ELSE Unwind(Pop(stack))
    /\ raised' = TRUE
    /\ UNCHANGED queries
    /\ UNCHANGED <<prog, ops, last, pre, serviceDisposed, initCalls>>

\* ------------------------------------------------------- specification
Next ==
    \/ \E f \in Features : createNewFeature(f)
    \/ \E f \in Features, capabilities \in ServerCapabilities, sel \in BOOLEAN :
           initialize(f, capabilities, sel)
    \/ initializeRegister
    \/ \E f \in Features : dispose(f)
    \/ disposeFire
    \/ disposeSuper
    \/ invoke
    \/ fireReturn
    \/ onInitialized
    \/ onDisposed
    \/ serviceDispose
    \/ serviceDisposeForEach
    \/ serviceDisposeClear
    \/ stackOverflow
    \/ \E l \in QueryLanguages, arg \in Args : superTypes(l, arg)
    \/ \E l \in QueryLanguages, arg \in Args : subTypes(l, arg)
    \/ \E i \in 1..MaxOutstanding, answer \in Answers : respond(i, answer)
    \/ \E type \in FlipInputs : flipCall(type)

Spec == Init /\ [][Next]_vars

TypeOK ==
    /\ created \subseteq Features
    /\ features \in [Languages -> Features \cup {None}]
    /\ Len(stack) <= MaxStack
    /\ ops \in 0..MaxOps

\* ------------------------------------------------------------ the claims
SameLanguage(f, g) == f # g /\ languageId[f] = languageId[g]

\* the innermost frame returns normally in this step
Returns(op) ==
    /\ stack # <<>>
    /\ Top.op = op
    /\ stack' = Pop(stack)
    /\ ~raised'

\* this step is a top-level call
Called(op) == ops' = ops + 1 /\ last'.op = op

\* initialize has been called on f with a supported capability and a selector
Negotiated(f) == <<TRUE, TRUE>> \in initCalls[f]

\* the observer has seen f initialized and has not seen it disposed
Active(f) == initCount[f] > 0 /\ dispCount[f] = 0

\* C1: when the Initialized event of B replaces a mapped feature A of the same
\* language, A has been disposed (its emitters are closed) and its Disposed event
\* has been delivered before B becomes the mapped feature; and no two features of
\* one language are ever both initialized and not disposed.
C1_DisposeOldBeforeInstall ==
    [][ /\ \A l \in Languages :
              (features[l] # None /\ features'[l] # None /\ features'[l] # features[l])
                  => (dispCount[features[l]] >= 1 /\ toDisposeDisposed[features[l]])
        /\ \A f, g \in Features :
              SameLanguage(f, g) => ~(Active(f) /\ Active(g))' ]_vars

C1_Witness ==
    /\ ops = 4
    /\ last.op = "initialize" /\ last.f = "b"
    /\ features["go"] = "b"
    /\ initCount["a"] >= 1 /\ dispCount["a"] >= 1 /\ toDisposeDisposed["a"]

\* no feature of the language has negotiated
NeverNegotiated(l) == \A f \in Features : languageId[f] = l => ~Negotiated(f)

\* C2: isEnabledFor(L) is false as long as no feature of L has negotiated, true
\* in the state right after the Service's Initialized handler of a feature of L
\* has returned, and false in the state right after the Service's Disposed
\* handler of a feature of L has returned.
C2_EnabledTracksLifecycle ==
    [][ /\ \A l \in Languages : NeverNegotiated(l)' => ~isEnabledFor(l)'
        /\ Returns("onInitialized") => isEnabledFor(languageId[Top.f])'
        /\ Returns("onDisposed") => ~isEnabledFor(languageId[Top.f])' ]_vars

C2_Witness ==
    /\ stack = <<>>
    /\ created = {"a"}
    /\ last.op = "dispose" /\ last.f = "a"
    /\ initCount["a"] >= 1
    /\ ~isEnabledFor("go")

\* C3: the entry L -> F is added only in F's own Initialized handler, and the
\* Disposed handler of another feature G of L neither calls F.dispose() nor
\* removes F's entry.
C3_OnlyOwnEventsTouchEntry ==
    [][ /\ \A l \in Languages :
              (features'[l] # None /\ features'[l] # features[l])
                  => (stack # <<>> /\ Top.op = "onInitialized" /\ Top.f = features'[l])
        /\ (stack # <<>> /\ Top.op = "onDisposed"
              /\ features[languageId[Top.f]] \notin {None, Top.f})
              => /\ features' = features
                 /\ ~(Len(stack') > Len(stack) /\ Top'.op = "dispose") ]_vars

\* C4: the observer of a feature is delivered its Disposed event at most once,
\* whatever dispose() calls are made.
C4_DisposedOnce == \A f \in Features : dispCount[f] <= 1

\* C5: over any sequence of initialize calls the observer of a feature is
\* delivered Initialized at most once and the client registers at most once.
C5_InitializeOnce == \A f \in Features : initCount[f] <= 1 /\ regCount[f] <= 1

\* the registration of the initialize call in progress on f is still to be made
RegistrationPending(f) ==
    /\ stack # <<>>
    /\ stack[1].op = "initialize" /\ stack[1].f = f /\ stack[1].pc = "register"

\* C6: no Initialized subscriber of a feature (the Service's handler, the
\* observer) runs while the registration of that negotiation is still to be made.
C6_RegisterBeforeInitialized ==
    [][ \A f \in Features :
            RegistrationPending(f)
                => /\ initCount'[f] = initCount[f]
                   /\ ~(stack' # <<>> /\ Top'.op = "onInitialized" /\ Top'.f = f) ]_vars

\* C7: when Service.dispose() has returned, the map is empty and every feature
\* that was mapped when it was called is disposed and has delivered its Disposed
\* event exactly once since the call.
C7_ServiceDisposeOnce ==
    (stack = <<>> /\ last.op = "serviceDispose")
        => /\ \A l \in Languages : ~isEnabledFor(l)
           /\ \A l \in Languages :
                  pre.features[l] # None
                      => /\ toDisposeDisposed[pre.features[l]]
                         /\ dispCount[pre.features[l]] = pre.dispCount[pre.features[l]] + 1

\* C8: once Service.dispose() has returned, isEnabledFor is false for every
\* language in every later state.
C8_DisabledAfterServiceDispose ==
    serviceDisposed => \A l \in Languages : ~isEnabledFor(l)

\* f has been offered a falsy capability and never a supported one
Unsupported(f) ==
    /\ \E sel \in BOOLEAN : <<FALSE, sel>> \in initCalls[f]
    /\ ~Negotiated(f)

C10_NoSelectorNoChange ==
    [][ (Called("initialize") /\ ~last'.sel)
            => (UNCHANGED prog /\ stack' = <<>> /\ ~raised') ]_vars

C10_Witness ==
    /\ stack = <<>>
    /\ last.op = "initialize" /\ last.cap /\ ~last.sel
    /\ regCount[last.f] = 0 /\ initCount[last.f] = 0
    /\ features[languageId[last.f]] # last.f

\* the query made by the latest call, when that call is superTypes or subTypes
IsQuery == last.op \in {"superTypes", "subTypes"}
LastQuery == queries[Len(queries)]
Sent(q) == q.feature # None

C12_NoFeatureNoRequest ==
    [][ ((Called("superTypes") \/ Called("subTypes"))
            /\ ~isEnabledFor(queries'[Len(queries')].languageId))
          => /\ queries'[Len(queries')].sends = 0
             /\ queries'[Len(queries')].state = "resolved"
             /\ queries'[Len(queries')].value = AnswerUndefined
             /\ UNCHANGED prog /\ stack' = <<>> /\ ~raised' ]_vars

C12_Witness ==
    /\ IsQuery
    /\ "a" \in created /\ ~isEnabledFor("go")
    /\ LastQuery.languageId = "go"
    /\ LastQuery.state = "resolved" /\ LastQuery.sends = 0

\* C13: for an item or a location the request sent has position = range.start,
\* textDocument.uri = uri, resolve = 1, and direction = parents for superTypes,
\* children for subTypes.
C13_NormalizedRequest ==
    (IsQuery /\ Sent(LastQuery) /\ LastQuery.arg \in Locations \cup Items)
        => /\ LastQuery.params.position = Some(LastQuery.arg.range[1].start)
           /\ LastQuery.params.textDocument = Some([uri |-> LastQuery.arg.uri])
           /\ LastQuery.params.resolve = Some(1)
           /\ LastQuery.params.direction =
                  Some(IF last.op = "superTypes" THEN "parents" ELSE "children")

C13_Witness ==
    /\ last.op = "subTypes" /\ Sent(LastQuery)
    /\ LastQuery.arg.uri = Some("file:///a.ts")
    /\ LastQuery.arg.range = Some(Range(Position(3, 5), Position(10, 2)))
    /\ LastQuery.params.position = Some(Position(3, 5))
    /\ LastQuery.params.textDocument = Some([uri |-> Some("file:///a.ts")])
    /\ LastQuery.params.direction = Some("children")

\* C14: for an argument of the position-request shape the request carries the
\* argument's position and textDocument, and the caller's argument object has
\* the same value in every field after the call as before it.
C14_PositionParamsUntouched ==
    (IsQuery /\ Sent(LastQuery) /\ LastQuery.arg \in PositionParams)
        => /\ LastQuery.params.position = LastQuery.arg.position
           /\ LastQuery.params.textDocument = LastQuery.arg.textDocument
           /\ LastQuery.argAfter = LastQuery.arg

\* C15: get resolves to undefined exactly when the backend answers null or
\* nothing, and otherwise to the backend's item as answered: an absent relation
\* stays absent and an empty one stays empty.
C15_GetKeepsItem ==
    \A i \in 1..Len(queries) :
        (queries[i].answer # Absent /\ queries[i].answer[1].kind # "error")
            => /\ queries[i].state = "resolved"
               /\ (queries[i].value = AnswerUndefined)
                      <=> (queries[i].answer[1].kind \in {"null", "undefined"})
               /\ queries[i].answer[1].kind = "item"
                      => queries[i].value = queries[i].answer[1]

C15_Witness ==
    \E i \in 1..Len(queries) :
        /\ queries[i].state = "resolved"
        /\ queries[i].value.kind = "item"
        /\ queries[i].value.item[1].parents = Absent
        /\ queries[i].value.item[1].children = Some(<<>>)

\* C16: a query through a feature issues exactly one sendRequest; when that
\* request is rejected the caller's promise is rejected with the same error,
\* and the answer's arrival changes neither the Service map nor any feature.
C16_FailurePropagates ==
    [][ /\ \A i \in 1..Len(queries') :
              /\ Sent(queries'[i]) => queries'[i].sends = 1
              /\ (queries'[i].answer # Absent /\ queries'[i].answer[1].kind = "error")
                    => (queries'[i].state = "rejected"
                          /\ queries'[i].value = queries'[i].answer[1])
        /\ (queries' # queries /\ ops' = ops) => UNCHANGED prog ]_vars

C16_Witness ==
    /\ IsQuery
    /\ LastQuery.state = "rejected"
    /\ LastQuery.value = Answer("error", Absent, Some("timeout"))
    /\ features[LastQuery.languageId] = LastQuery.feature

\* C17: flip maps subtype to supertype and supertype to subtype, flipping twice
\* gives the value back, and any other input fails with an error.
C17_FlipInvolution ==
    last.op = "flip"
        => /\ last.arg = SUBTYPE => (last.result = SUPERTYPE /\ last.twice = SUBTYPE)
           /\ last.arg = SUPERTYPE => (last.result = SUBTYPE /\ last.twice = SUPERTYPE)
           /\ last.arg \notin {SUBTYPE, SUPERTYPE} => last.result = Error

C17_Witness ==
    /\ last.op = "flip"
    /\ last.arg = SUPERTYPE /\ last.result = SUBTYPE /\ last.twice = SUPERTYPE

\* the Service's Disposed handler of f is running inside itself
Reentered(f) ==
    \E i, j \in 1..Len(stack) :
        /\ i < j
        /\ stack[i].op = "onDisposed" /\ stack[i].f = f
        /\ stack[j].op = "onDisposed" /\ stack[j].f = f

\* C18: dispose() of a mapped feature never re-enters the Service's Disposed
\* handler of that feature and raises nothing, and when it has returned the map
\* entry is removed and the Service's two subscriptions on the feature are gone.
C18_DisposeMappedNoReentry ==
    (last.op = "dispose" /\ last.mapped)
        => /\ ~Reentered(last.f)
           /\ ~raised
           /\ stack = <<>>
                 => /\ features[languageId[last.f]] # last.f
                    /\ \A k \in 1..Len(onInitializedEmitter[last.f]) :
                           onInitializedEmitter[last.f][k] # Service
                    /\ \A k \in 1..Len(onDisposedEmitter[last.f]) :
                           onDisposedEmitter[last.f][k] # Service

\* C19: when a feature's Disposed event has been delivered its emitters are
\* closed, and an initialize or dispose call made after that delivers neither
\* Initialized nor Disposed to the observer.
C19_DisposedIsTerminal ==
    [][ /\ \A f \in Features :
              (stack = <<>> /\ dispCount[f] >= 1) => toDisposeDisposed[f]
        /\ (stack # <<>> /\ last.op \in {"initialize", "dispose"} /\ last.disposed)
              => /\ initCount'[last.f] = initCount[last.f]
                 /\ dispCount'[last.f] = dispCount[last.f] ]_vars

\* C20: a registered feature on which no supported initialize has been called
\* is not the mapped feature of its language and no query has been sent
\* through it.
C20_CreatedIsInert ==
    \A f \in created :
        ~Negotiated(f)
            => /\ features[languageId[f]] # f
               /\ \A i \in 1..Len(queries) : queries[i].feature # f

C20_Witness ==
    /\ {"a", "b"} \subseteq created
    /\ Negotiated("a") /\ ~Negotiated("b")
    /\ IsQuery /\ LastQuery.feature = "a"

\* C21: whenever no operation is running, no feature whose Disposed event has
\* been delivered is the mapped feature of a language.
C21_NoDisposedFeatureMapped ==
    stack = <<>>
        => \A l \in Languages :
               features[l] # None => dispCount[features[l]] = 0

\* the languages other than that of the feature the running call was made on
OtherLanguages(f) == Languages \ {languageId[f]}

\* C22: while an initialize or dispose call on a feature of language L runs, its
\* Initialized and Disposed events change at most the map entry of L: the entry
\* of every other language stays as it is, and no feature of another language
\* is disposed or has a Disposed event delivered.
C22_OtherLanguagesUntouched ==
    [][ (last'.op \in {"initialize", "dispose"})
          => /\ \A l \in OtherLanguages(last'.f) : features'[l] = features[l]
             /\ \A g \in Features :
                    languageId[g] \in OtherLanguages(last'.f)
                        => /\ dispCount'[g] = dispCount[g]
                           /\ toDisposeDisposed'[g] = toDisposeDisposed[g]
                           /\ providers'[g] = providers[g] ]_vars

C22_Witness ==
    /\ stack = <<>>
    /\ last.op = "dispose" /\ last.f = "a" /\ last.mapped
    /\ features["go"] = None
    /\ features["ts"] = "c" /\ dispCount["c"] = 0 /\ ~toDisposeDisposed["c"]

\* q2 is the request q1, outstanding or settled
SameRequest(q1, q2) ==
    /\ q2.languageId = q1.languageId /\ q2.direction = q1.direction
    /\ q2.arg = q1.arg /\ q2.params = q1.params
    /\ q2.feature = q1.feature /\ q2.sends = 1

\* the number of requests sent among the queries the caller holds
SentCount(qs) == Len(SelectSeq(qs, Sent))

\* C23: a query is sent through the feature mapped for the language when
\* superTypes/subTypes is called; while the request is outstanding, whatever
\* happens to that feature, it stays the one request sent through that feature,
\* no other step sends a request, and the answer's arrival changes neither the
\* Service map nor any feature.
C23_QueryBoundAtCall ==
    [][ /\ (Called("superTypes") \/ Called("subTypes"))
              => queries'[Len(queries')].feature =
                     (IF queries'[Len(queries')].languageId \in Languages
                      THEN features[queries'[Len(queries')].languageId]
                      ELSE None)
        /\ \A i \in 1..Len(queries) :
               queries[i].state = "pending"
                   => \E j \in 1..Len(queries') : SameRequest(queries[i], queries'[j])
        /\ ~(Called("superTypes") \/ Called("subTypes"))
              => SentCount(queries') <= SentCount(queries)
        /\ (queries' # queries /\ ops' = ops) => UNCHANGED prog ]_vars

C23_Witness ==
    \E i \in 1..Len(queries) :
        /\ queries[i].feature = "a" /\ queries[i].sends = 1
        /\ queries[i].state = "resolved" /\ queries[i].value.kind = "item"
        /\ features["go"] = "b" /\ dispCount["a"] >= 1

====
